---- MODULE Spec2Model ----
(***************************************************************************)
(* The Dirichlet likelihood of custom_likelihoods.py as a state machine.   *)
(*                                                                         *)
(* Numbers.  The tensors of the program hold IEEE reals.  The model keeps  *)
(* the part of the reals on which every operation of the program is exact: *)
(*   - a latent value f is of the form ln(m), m a positive integer, and is *)
(*     stored as m (so F = [0,0,0] is stored <<1,1,1>>);                   *)
(*   - a concentration is an integer (positive under the default link);   *)
(*   - a label y is a rational n/d, stored [n |-> n, d |-> d];             *)
(*   - a quotient (mean, variance, sample) is an extended rational:        *)
(*     finite n/d in lowest terms, or nan, +inf, -inf;                     *)
(*   - a logarithm (log y, lgamma, log_prob) is an extended log-value:     *)
(*     the logarithm of a positive rational, stored as the vector of the   *)
(*     exponents of its prime factorisation (ln 2 is 2 :> 1), or nan,      *)
(*     +inf, -inf.                                                         *)
(* The IEEE special values arise exactly where the program's operations    *)
(* produce them: log of 0 or of a negative, lgamma at a pole, x/0, inf-inf.*)
(***************************************************************************)
EXTENDS Integers, Sequences, FiniteSets, TLC

(* ---------------------------------------------------------------- bounds *)
MaxK == 3        \* categories per row: K in 1..MaxK
MaxRows == 2     \* rows per batch
MaxCells == 4    \* rows * K of a batch
MaxExpF == 2     \* a latent value is ln(m), m in 1..MaxExpF
YDen == 3        \* labels lie on the grid {-1/YDen, 0, 1/YDen, .., 1}

Primes == {2, 3, 5, 7, 11, 13}

(* ------------------------------------------------------ integer helpers *)
Abs(x) == IF x < 0 THEN 0 - x ELSE x

RECURSIVE Gcd(_, _)
Gcd(a, b) == IF b = 0 THEN a ELSE Gcd(b, a % b)

RECURSIVE SumInt(_, _)
\* sum of the first n entries of the integer row s
SumInt(s, n) == IF n = 0 THEN 0 ELSE SumInt(s, n - 1) + s[n]

RECURSIVE Vp(_, _)
\* the exponent of the prime p in the positive integer n
Vp(n, p) == IF n % p = 0 THEN 1 + Vp(n \div p, p) ELSE 0

(* ------------------------------------------------- extended log-values *)
ZeroVec == [p \in Primes |-> 0]
LFin(v) == [t |-> "fin", v |-> v]
LNaN == [t |-> "nan", v |-> ZeroVec]
LPInf == [t |-> "pinf", v |-> ZeroVec]
LNInf == [t |-> "ninf", v |-> ZeroVec]
LZero == LFin(ZeroVec)

\* ln(n) for a positive integer n
LogN(n) == [p \in Primes |-> Vp(n, p)]

\* IEEE addition
LAdd(a, b) ==
    IF a.t = "nan" \/ b.t = "nan" THEN LNaN
    ELSE IF a.t = "fin" /\ b.t = "fin" THEN LFin([p \in Primes |-> a.v[p] + b.v[p]])
    ELSE IF a.t = "fin" THEN b
    ELSE IF b.t = "fin" THEN a
    ELSE IF a.t = b.t THEN a
    ELSE LNaN

\* IEEE negation
LNeg(a) ==
    IF a.t = "fin" THEN LFin([p \in Primes |-> 0 - a.v[p]])
    ELSE IF a.t = "pinf" THEN LNInf
    ELSE IF a.t = "ninf" THEN LPInf
    ELSE LNaN

LSub(a, b) == LAdd(a, LNeg(b))

\* IEEE product of the integer x and the log-value a
LMul(x, a) ==
    IF a.t = "nan" THEN LNaN
    ELSE IF a.t = "fin" THEN LFin([p \in Primes |-> x * a.v[p]])
    ELSE IF x = 0 THEN LNaN
    ELSE IF x > 0 THEN a
    ELSE LNeg(a)

\* (slip: log |y|)
Log_abs(y) ==
    IF y.n = 0 THEN LNInf
    ELSE LFin([p \in Primes |-> Vp(Abs(y.n), p) - Vp(y.d, p)])

\* log of the rational y: nan below zero, -inf at zero
Log(y) ==
    IF y.n < 0 THEN LNaN
    ELSE IF y.n = 0 THEN LNInf
    ELSE LFin([p \in Primes |-> Vp(y.n, p) - Vp(y.d, p)])

\* (slip: the plain product x * log(y), so 0 * log(0) is nan)
xlogy_naive(x, y) == LMul(x, Log(y))

\* tf.math.xlogy: 0 where x = 0, x * log(y) elsewhere
xlogy(x, y) == IF x = 0 THEN LZero ELSE LMul(x, Log(y))

RECURSIVE LFact(_)
\* ln((n-1)!) for n >= 1
LFact(n) == IF n <= 1 THEN LZero ELSE LAdd(LFact(n - 1), LFin(LogN(n - 1)))

\* tf.math.lgamma on an integer: +inf at the poles 0, -1, -2, ..
lgamma(a) == IF a <= 0 THEN LPInf ELSE LFact(a)

RECURSIVE reduce_sum_l(_, _)
\* tf.reduce_sum of the first n entries of a row of log-values
reduce_sum_l(s, n) == IF n = 0 THEN LZero ELSE LAdd(reduce_sum_l(s, n - 1), s[n])

\* tf.math.lbeta of one row: sum lgamma(x_k) - lgamma(sum x_k)
lbeta(x) ==
    LSub(reduce_sum_l([k \in DOMAIN x |-> lgamma(x[k])], Len(x)),
         lgamma(SumInt(x, Len(x))))

(* ---------------------------------------------------- the link function *)
Links == {"exp", "expm1", "negexp"}

\* self.invlink applied to one latent value ln(m), stored as m:
\*   tf.exp (the default) -> m, tf.math.expm1 -> m - 1,
\*   lambda f: -tf.exp(f) -> -m
InvlinkAt(link, m) ==
    IF link = "exp" THEN m
    ELSE IF link = "expm1" THEN m - 1
    ELSE 0 - m

\* self.invlink(F), element-wise on the batch
Invlink(link, f) == [i \in DOMAIN f |-> [k \in DOMAIN f[i] |-> InvlinkAt(link, f[i][k])]]

(* ------------------------------------------------------------ _log_prob *)
\* (slip: the exponent alpha_k instead of alpha_k - 1)
_log_prob_plain(concentration, y) ==
    [i \in DOMAIN concentration |->
        LSub(reduce_sum_l([k \in DOMAIN y[i] |-> xlogy(concentration[i][k], y[i][k])],
                          Len(y[i])),
             lbeta(concentration[i]))]

\* Dirichlet._log_prob, row by row:
\*   reduce_sum(xlogy(concentration - 1, y), axis=-1) - lbeta(concentration)
_log_prob(concentration, y) ==
    [i \in DOMAIN concentration |->
        LSub(reduce_sum_l([k \in DOMAIN y[i] |-> xlogy(concentration[i][k] - 1, y[i][k])],
                          Len(y[i])),
             lbeta(concentration[i]))]

\* Dirichlet.log_prob
log_prob(link, f, y) == _log_prob(Invlink(link, f), y)

(* -------------------------------------------------- extended rationals *)
RNaN == [t |-> "nan", n |-> 0, d |-> 1]
RPInf == [t |-> "pinf", n |-> 0, d |-> 1]
RNInf == [t |-> "ninf", n |-> 0, d |-> 1]

\* the finite rational a/b (b # 0) in lowest terms with a positive denominator
RFin(a, b) ==
    LET g == Gcd(Abs(a), Abs(b))
        s == IF b < 0 THEN 0 - 1 ELSE 1
    IN  [t |-> "fin", n |-> (s * a) \div g, d |-> (s * b) \div g]

\* IEEE division of two integers: x/0 is +-inf, 0/0 is nan
RDiv(a, b) ==
    IF b # 0 THEN RFin(a, b)
    ELSE IF a > 0 THEN RPInf
    ELSE IF a < 0 THEN RNInf
    ELSE RNaN

\* IEEE addition
RAdd(a, b) ==
    IF a.t = "nan" \/ b.t = "nan" THEN RNaN
    ELSE IF a.t = "fin" /\ b.t = "fin" THEN RFin(a.n * b.d + b.n * a.d, a.d * b.d)
    ELSE IF a.t = "fin" THEN b
    ELSE IF b.t = "fin" THEN a
    ELSE IF a.t = b.t THEN a
    ELSE RNaN

RECURSIVE reduce_sum_r(_, _)
\* tf.reduce_sum of the first n entries of a row of rationals
reduce_sum_r(s, n) == IF n = 0 THEN RFin(0, 1) ELSE RAdd(reduce_sum_r(s, n - 1), s[n])

(* ------------------------------------------------ reductions of a batch *)
RECURSIVE SumAll(_, _)
\* the sum of every entry of the first n rows of the integer batch m
SumAll(m, n) == IF n = 0 THEN 0 ELSE SumAll(m, n - 1) + SumInt(m[n], Len(m[n]))

\* tf.reduce_sum(m, axis=None)[..., tf.newaxis]: one sum for the whole batch
reduce_sum_all(m) == [i \in DOMAIN m |-> SumAll(m, Len(m))]

\* tf.reduce_sum(m, axis=-1)[..., tf.newaxis]: one sum per row, over its categories
reduce_sum_last(m) == [i \in DOMAIN m |-> SumInt(m[i], Len(m[i]))]

(* ------------------------------------------------------ conditional_mean *)
\* (slip: the sum taken over the whole batch)
conditional_mean_noaxis(link, f) ==
    LET concentration == Invlink(link, f)
        concentration_sum == reduce_sum_all(concentration)
    IN  [i \in DOMAIN f |-> [k \in DOMAIN f[i] |->
            RDiv(concentration[i][k], concentration_sum[i])]]

\* Dirichlet.conditional_mean: concentration / concentration_sum
conditional_mean(link, f) ==
    LET concentration == Invlink(link, f)
        concentration_sum == reduce_sum_last(concentration)
    IN  [i \in DOMAIN f |-> [k \in DOMAIN f[i] |->
            RDiv(concentration[i][k], concentration_sum[i])]]

(* -------------------------------------------------- conditional_variance *)
\* (slip: the sum taken over the whole batch)
conditional_variance_noaxis(link, f) ==
    LET concentration == Invlink(link, f)
        c_sum == reduce_sum_all(concentration)
    IN  [i \in DOMAIN f |-> [k \in DOMAIN f[i] |->
            RDiv(concentration[i][k] * (c_sum[i] - concentration[i][k]),
                 c_sum[i] * c_sum[i] * (c_sum[i] + 1))]]

\* (slip: concentration - c_sum for c_sum - concentration)
conditional_variance_flipped(link, f) ==
    LET concentration == Invlink(link, f)
        c_sum == reduce_sum_last(concentration)
    IN  [i \in DOMAIN f |-> [k \in DOMAIN f[i] |->
            RDiv(concentration[i][k] * (concentration[i][k] - c_sum[i]),
                 c_sum[i] * c_sum[i] * (c_sum[i] + 1))]]

\* Dirichlet.conditional_variance:
\*   concentration * (c_sum - concentration) / (c_sum ** 2 * (c_sum + 1))
conditional_variance(link, f) ==
    LET concentration == Invlink(link, f)
        c_sum == reduce_sum_last(concentration)
    IN  [i \in DOMAIN f |-> [k \in DOMAIN f[i] |->
            RDiv(concentration[i][k] * (c_sum[i] - concentration[i][k]),
                 c_sum[i] * c_sum[i] * (c_sum[i] + 1))]]

(* --------------------------------------------------------------- inputs *)
Shapes == {s \in (1..MaxRows) \X (1..MaxK) : s[1] * s[2] <= MaxCells}

\* latent batches of shape n x k
FBatches(n, k) == [1..n -> [1..k -> 1..MaxExpF]]

\* label rows of k grid points: the rows of the simplex, and rows that miss it by
\* one grid step or hold a negative entry
YRows(k) ==
    {[j \in 1..k |-> [n |-> y[j], d |-> YDen]] :
        y \in {z \in [1..k -> (0 - 1)..YDen] : SumInt(z, k) \in (YDen - 1)..(YDen + 1)}}

\* label batches of shape n x k
YBatches(n, k) == [1..n -> YRows(k)]

(* ---------------------------------------------------------- _sample_dir *)
MaxN == 2        \* samples per call: n in 1..MaxN
MaxSampleK == 2  \* categories of a sampled concentration
MaxGamma == 3    \* a Gamma variate is one of 1..MaxGamma
MaxPos == 4      \* variates one seeded kernel hands out in a run

OpSeeds == {1, 2}
GlobalSeeds == {0, 1}

EntropySeeds == {3, 4}

\* the seed argument: <<>> is None, <<s>> the op seed s
SeedArgs == {<<>>} \cup {<<s>> : s \in OpSeeds}

\* The q-th variate (q = 0, 1, ..) of the kernel with op seed s, for shape alpha.
\* TensorFlow's generator is counter-based: the variate is a fixed function of
\* the (global seed, op seed) pair, the position in the kernel's stream and the
\* shape.  This is a stand-in for that function with values in 1..MaxGamma.
Variate(gseed, s, q, alpha) == 1 + ((gseed + s * (q + 1) + q * q + alpha * (q + s)) % MaxGamma)

\* (slip: one generator shared by every op seed, so a seeded draw starts where
\* all earlier seeded draws together left off)
random_gamma_shared(gseed, kern, n, concentration, seed, entropy) ==
    LET K == Len(concentration)
        at == SumInt(kern, Cardinality(OpSeeds))
    IN  [i \in 1..n |-> [k \in 1..K |->
            IF seed = <<>>
            THEN Variate(gseed, entropy, (i - 1) * K + (k - 1), concentration[k])
            ELSE Variate(gseed, seed[1], at + (i - 1) * K + (k - 1), concentration[k])]]

\* tf.random.gamma(shape=[n], alpha=concentration, seed=seed): an n x K tensor.
\* Each op seed has its own kernel, whose stream position advances with every
\* call and starts at 0 in a new run.  Sample i, category k takes the variate at
\* offset (i-1) K + (k-1) past the kernel's position.  With seed=None the kernel
\* seeds itself from the system's entropy: the tensor is the head of the stream
\* of whichever seed it drew.
random_gamma(gseed, kern, n, concentration, seed, entropy) ==
    LET K == Len(concentration)
    IN  [i \in 1..n |-> [k \in 1..K |->
            IF seed = <<>>
            THEN Variate(gseed, entropy, (i - 1) * K + (k - 1), concentration[k])
            ELSE Variate(gseed, seed[1], kern[seed[1]] + (i - 1) * K + (k - 1),
                         concentration[k])]]

\* tf.reduce_sum(g, axis=-1, keepdims=True): per sample, over its categories
reduce_sum_keepdims(g) == [i \in DOMAIN g |-> SumInt(g[i], Len(g[i]))]

\* (slip: axis=0, the sum taken per category over the samples)
normalize_axis0(gamma_sample) ==
    [i \in DOMAIN gamma_sample |-> [k \in DOMAIN gamma_sample[i] |->
        RDiv(gamma_sample[i][k],
             SumInt([j \in DOMAIN gamma_sample |-> gamma_sample[j][k]], Len(gamma_sample)))]]

\* gamma_sample / tf.reduce_sum(gamma_sample, axis=-1, keepdims=True)
normalize(gamma_sample) ==
    LET total == reduce_sum_keepdims(gamma_sample)
    IN  [i \in DOMAIN gamma_sample |-> [k \in DOMAIN gamma_sample[i] |->
            RDiv(gamma_sample[i][k], total[i])]]

(* ---------------------------------------------------------------- state *)
VARIABLES
    invlink,                  \* self.invlink
    num_monte_carlo_points,   \* self.num_monte_carlo_points
    latent_dim,               \* set by super().__init__(**kwargs)
    F, Y,                     \* the caller's tensors
    op,                       \* the last method called, "init" after construction
    ret,                      \* what it returned
    frame,                    \* arguments and locals of that call, for _sample_dir
    global_seed,              \* the global random seed the program runs under
    kernel,                   \* per op seed: the position of its kernel's stream
    run,                      \* which run of the program this is
    alone,                    \* history: the first call made on the object
    noted                     \* history: the first seeded _sample_dir call

prog == <<invlink, num_monte_carlo_points, latent_dim, F, Y, op, ret, frame,
          global_seed, kernel, run>>
vars == <<prog, alone, noted>>

DefaultMCPoints == 100

NoCall == [op |-> "none"]
NoFrame == [n |-> 0]
FreshKernels == [s \in OpSeeds |-> 0]

\* (slip: the sample count taken from the keyword arguments)
Dirichlet_init_kw(link, kwargs) ==
    [invlink |-> link, num_monte_carlo_points |-> kwargs.latent_dim,
     latent_dim |-> kwargs.latent_dim]

\* Dirichlet.__init__(invlink, **kwargs): the fields of the new object
Dirichlet_init(link, kwargs) ==
    [invlink |-> link, num_monte_carlo_points |-> DefaultMCPoints,
     latent_dim |-> kwargs.latent_dim]

Construct(link, kwargs) ==
    LET self == Dirichlet_init(link, kwargs)
    IN  /\ invlink = self.invlink
        /\ num_monte_carlo_points = self.num_monte_carlo_points
        /\ latent_dim = self.latent_dim

\* a fresh process: nothing called, every kernel at the start of its stream
Fresh ==
    /\ op = "init"
    /\ ret = <<>>
    /\ frame = NoFrame
    /\ kernel = FreshKernels
    /\ run = "first"
    /\ alone = NoCall
    /\ noted = NoCall

\* a likelihood built for K categories and a batch of the caller's data
Init ==
    \E link \in Links, s \in Shapes :
        /\ Construct(link, [latent_dim |-> s[2]])
        /\ F \in FBatches(s[1], s[2])
        /\ Y \in YBatches(s[1], s[2])
        /\ global_seed = 0
        /\ Fresh

\* (slip: non-positive labels clipped in place before the logarithm)
LogProb_inplace ==
    /\ op' = "log_prob"
    /\ Y' = [i \in DOMAIN Y |-> [k \in DOMAIN Y[i] |->
                IF Y[i][k].n <= 0 THEN [n |-> 1, d |-> Y[i][k].d] ELSE Y[i][k]]]
    /\ ret' = log_prob(invlink, F, Y')
    /\ frame' = NoFrame
    /\ UNCHANGED <<invlink, num_monte_carlo_points, latent_dim, F, global_seed, kernel, run>>

LogProb ==
    /\ op' = "log_prob"
    /\ ret' = log_prob(invlink, F, Y)
    /\ frame' = NoFrame
    /\ UNCHANGED <<invlink, num_monte_carlo_points, latent_dim, F, Y, global_seed, kernel, run>>

ConditionalMean ==
    /\ op' = "conditional_mean"
    /\ ret' = conditional_mean(invlink, F)
    /\ frame' = NoFrame
    /\ UNCHANGED <<invlink, num_monte_carlo_points, latent_dim, F, Y, global_seed, kernel, run>>

ConditionalVariance ==
    /\ op' = "conditional_variance"
    /\ ret' = conditional_variance(invlink, F)
    /\ frame' = NoFrame
    /\ UNCHANGED <<invlink, num_monte_carlo_points, latent_dim, F, Y, global_seed, kernel, run>>

\* (slip: normalised over axis 0)
_sample_dir_axis0(concentration, n, seed, gseed, kern, entropy) ==
    LET gamma_sample == random_gamma(gseed, kern, n, concentration, seed, entropy)
    IN  [gamma_sample |-> gamma_sample, ret |-> normalize_axis0(gamma_sample)]

\* Dirichlet._sample_dir(concentration, n, seed): the locals and the result
_sample_dir(concentration, n, seed, gseed, kern, entropy) ==
    LET gamma_sample == random_gamma(gseed, kern, n, concentration, seed, entropy)
    IN  [gamma_sample |-> gamma_sample, ret |-> normalize(gamma_sample)]

\* the seed the seed=None kernel draws; a seeded kernel draws none
Entropy(seed) == IF seed = <<>> THEN EntropySeeds ELSE {0}

\* the concentrations the caller samples from: the rows of invlink(F) that are
\* Dirichlet parameters (every entry positive)
Concentrations ==
    LET a == Invlink(invlink, F) IN {a[i] : i \in {j \in DOMAIN a : \A k \in DOMAIN a[j] : a[j][k] > 0}}

SampleDir ==
    \E concentration \in Concentrations, n \in 1..MaxN, seed \in SeedArgs :
        LET K == Len(concentration) IN
        /\ seed # <<>> => kernel[seed[1]] + n * K <= MaxPos
        /\ \E entropy \in Entropy(seed) :
            LET r == _sample_dir(concentration, n, seed, global_seed, kernel, entropy)
            IN  /\ ret' = r.ret
                /\ frame' = [concentration |-> concentration, n |-> n, seed |-> seed,
                             at |-> IF seed = <<>> THEN 0 ELSE kernel[seed[1]],
                             gamma_sample |-> r.gamma_sample]
        /\ kernel' = IF seed = <<>> THEN kernel
                     ELSE [kernel EXCEPT ![seed[1]] = @ + n * K]
        /\ op' = "_sample_dir"
        /\ UNCHANGED <<invlink, num_monte_carlo_points, latent_dim, F, Y, global_seed, run>>

\* the program is run again: the same construction, fresh kernels
Restart ==
    /\ run = "first"
    /\ run' = "second"
    /\ LET self == Dirichlet_init(invlink, [latent_dim |-> latent_dim])
       IN  /\ invlink' = self.invlink
           /\ num_monte_carlo_points' = self.num_monte_carlo_points
           /\ latent_dim' = self.latent_dim
    /\ kernel' = FreshKernels
    /\ op' = "init"
    /\ ret' = <<>>
    /\ frame' = NoFrame
    /\ UNCHANGED <<F, Y, global_seed>>

\* history: the first call made on the object is remembered
FirstCall == alone' = IF alone = NoCall THEN [op |-> op', ret |-> ret'] ELSE alone

\* history: the first _sample_dir call with a seed is remembered, with the run it
\* was made in and the position its kernel's stream was at
FirstSeeded ==
    noted' = IF noted = NoCall /\ frame'.seed # <<>>
             THEN [op |-> op', concentration |-> frame'.concentration, n |-> frame'.n,
                   seed |-> frame'.seed, at |-> frame'.at, run |-> run, ret |-> ret']
             ELSE noted

(* -------------------------------------------------------- specifications *)
\* the three public methods on every batch of the caller's data
Next ==
    \/ LogProb /\ UNCHANGED <<alone, noted>>
    \/ ConditionalMean /\ UNCHANGED <<alone, noted>>
    \/ ConditionalVariance /\ UNCHANGED <<alone, noted>>

Spec == Init /\ [][Next]_vars

\* the public methods in any order on one-row batches, the first call remembered
InitPure ==
    \E link \in Links, k \in 1..(MaxK - 1) :
        /\ Construct(link, [latent_dim |-> k])
        /\ F \in FBatches(1, k)
        /\ Y \in YBatches(1, k)
        /\ global_seed = 0
        /\ Fresh

NextPure ==
    \/ LogProb /\ FirstCall /\ UNCHANGED noted
    \/ ConditionalMean /\ FirstCall /\ UNCHANGED noted
    \/ ConditionalVariance /\ FirstCall /\ UNCHANGED noted

SpecPure == InitPure /\ [][NextPure]_vars

\* every method in any order, over runs of the program, on one object
InitCalls ==
    \E link \in Links, k \in 1..MaxSampleK :
        /\ Construct(link, [latent_dim |-> k])
        /\ F \in FBatches(1, k)
        /\ Y = <<[j \in 1..k |-> [n |-> 1, d |-> k]]>>
        /\ global_seed \in GlobalSeeds
        /\ Fresh

NextCalls ==
    \/ LogProb /\ UNCHANGED <<alone, noted>>
    \/ ConditionalMean /\ UNCHANGED <<alone, noted>>
    \/ ConditionalVariance /\ UNCHANGED <<alone, noted>>
    \/ SampleDir /\ FirstSeeded /\ UNCHANGED alone
    \/ Restart /\ UNCHANGED <<alone, noted>>

SpecCalls == InitCalls /\ [][NextCalls]_vars

(* ===================================================== claims under Spec *)
\* the concentration of the caller's batch under the configured link
Alpha == Invlink(invlink, F)

RowPositive(a) == \A k \in DOMAIN a : a[k] > 0
RowNumSum(y) == SumInt([k \in DOMAIN y |-> y[k].n], Len(y))
OnSimplex(y) == (\A k \in DOMAIN y : y[k].n >= 0) /\ RowNumSum(y) = y[1].d
Interior(y) == (\A k \in DOMAIN y : y[k].n > 0) /\ RowNumSum(y) = y[1].d

RECURSIVE VpFact(_, _)
\* Legendre's formula: the exponent of the prime p in n!
VpFact(n, p) == IF n < p THEN 0 ELSE (n \div p) + VpFact(n \div p, p)

\* the Dirichlet log-density of an interior point y under a positive integer
\* concentration a, prime by prime:
\*   sum_k (a_k - 1) ln(y_k) - (sum_k ln Gamma(a_k) - ln Gamma(sum_k a_k))
RefLogDensity(a, y) ==
    [p \in Primes |->
        SumInt([k \in DOMAIN a |-> (a[k] - 1) * (Vp(y[k].n, p) - Vp(y[k].d, p))], Len(a))
        - (SumInt([k \in DOMAIN a |-> VpFact(a[k] - 1, p)], Len(a))
           - VpFact(SumInt(a, Len(a)) - 1, p))]

Ln2 == [p \in Primes |-> IF p = 2 THEN 1 ELSE 0]
Third == [n |-> 1, d |-> 3]

\* C1: for every row with Y strictly inside the simplex and alpha = invlink(F) > 0,
\* log_prob returns the reference Dirichlet log-density, one scalar per row; for
\* F = [0,0,0] (alpha = [1,1,1]) and Y = [1/3,1/3,1/3] it returns ln 2.
C1_LogProbIsDirichletLogDensity ==
    op = "log_prob" =>
        /\ Len(ret) = Len(F)
        /\ \A i \in DOMAIN F :
            /\ (RowPositive(Alpha[i]) /\ Interior(Y[i]))
                  => ret[i] = LFin(RefLogDensity(Alpha[i], Y[i]))
            /\ (Alpha[i] = <<1, 1, 1>> /\ Y[i] = <<Third, Third, Third>>)
                  => ret[i] = LFin(Ln2)

C1_Witness ==
    /\ op = "log_prob"
    /\ invlink = "exp"
    /\ F = <<<<1, 1, 1>>>>
    /\ Y = <<<<Third, Third, Third>>>>
    /\ ret = <<LFin(Ln2)>>

RIsFin(r) == r.t = "fin"
RLess(a, b) == a.n * b.d < b.n * a.d      \* for finite a, b
ROne == RFin(1, 1)
RZero == RFin(0, 1)

\* C2 as stated: with alpha > 0, every row of conditional_mean sums to 1 and every
\* entry lies strictly between 0 and 1, for any K >= 1.
C2_Original ==
    op = "conditional_mean" =>
        \A i \in DOMAIN F : RowPositive(Alpha[i]) =>
            /\ reduce_sum_r(ret[i], Len(ret[i])) = ROne
            /\ \A k \in DOMAIN ret[i] :
                RIsFin(ret[i][k]) /\ RLess(RZero, ret[i][k]) /\ RLess(ret[i][k], ROne)

\* C2 amended: with alpha > 0, every row of conditional_mean sums to 1 and every
\* entry lies in (0, 1]; it is strictly below 1 when K >= 2 and exactly 1 when K = 1.
C2_MeanOnSimplex ==
    op = "conditional_mean" =>
        \A i \in DOMAIN F : RowPositive(Alpha[i]) =>
            /\ reduce_sum_r(ret[i], Len(ret[i])) = ROne
            /\ \A k \in DOMAIN ret[i] :
                /\ RIsFin(ret[i][k])
                /\ RLess(RZero, ret[i][k])
                /\ IF Len(F[i]) >= 2 THEN RLess(ret[i][k], ROne) ELSE ret[i][k] = ROne

C2_Witness ==
    /\ op = "conditional_mean"
    /\ invlink = "exp"
    /\ F = <<<<1, 2>>, <<2, 2>>>>
    /\ ret = <<<<RFin(1, 3), RFin(2, 3)>>, <<RFin(1, 2), RFin(1, 2)>>>>

\* C3: conditional_variance returns, entry by entry, a_k (S - a_k) / (S^2 (S + 1))
\* with a = invlink(F) and S the sum of a over the entry's own row (the IEEE value
\* of that quotient where the denominator is 0); for a = [2,2] both entries are 1/20.
C3_VarianceClosedForm ==
    op = "conditional_variance" =>
        /\ Len(ret) = Len(F)
        /\ \A i \in DOMAIN F :
            /\ Len(ret[i]) = Len(F[i])
            /\ \A k \in DOMAIN F[i] :
                LET a == Alpha[i][k]
                    S == SumInt(Alpha[i], Len(Alpha[i]))
                    num == a * (S - a)
                    den == S * S * (S + 1)
                IN  IF den # 0
                    THEN /\ RIsFin(ret[i][k])
                         /\ ret[i][k].n * den = num * ret[i][k].d
                         /\ ret[i][k].d > 0
                    ELSE ~RIsFin(ret[i][k])
            /\ Alpha[i] = <<2, 2>> => ret[i] = <<RFin(1, 20), RFin(1, 20)>>

C3_Witness ==
    /\ op = "conditional_variance"
    /\ invlink = "exp"
    /\ F = <<<<2, 2>>, <<1, 1>>>>
    /\ ret = <<<<RFin(1, 20), RFin(1, 20)>>, <<RFin(1, 12), RFin(1, 12)>>>>

\* C4 as stated: conditional_variance has no negative entry, for any F and whatever
\* link was configured.
C4_Original ==
    op = "conditional_variance" =>
        \A i \in DOMAIN ret : \A k \in DOMAIN ret[i] :
            ~(RIsFin(ret[i][k]) /\ ret[i][k].n < 0) /\ ret[i][k].t # "ninf"

\* C4 amended: conditional_variance is non-negative (and finite) in every entry of
\* every row whose concentration invlink(F) is strictly positive, as it always is
\* under the default exp link; for K = 1 the entry is exactly 0.
C4_VarianceNonNegative ==
    op = "conditional_variance" =>
        \A i \in DOMAIN ret :
            (invlink = "exp" \/ RowPositive(Alpha[i])) =>
                \A k \in DOMAIN ret[i] :
                    /\ RIsFin(ret[i][k])
                    /\ ret[i][k].n >= 0
                    /\ Len(F[i]) = 1 => ret[i][k] = RZero

C4_Witness ==
    /\ op = "conditional_variance"
    /\ Len(F) = 2
    /\ Len(F[1]) = 1
    /\ RowPositive(Alpha[1])
    /\ RowPositive(Alpha[2])
    /\ ret = <<<<RZero>>, <<RZero>>>>

LIsFin(l) == l.t = "fin"

\* the terms xlogy(alpha_j - 1, y_j) of row i, the k-th left out
RestTerms(i, k) ==
    LET js == DOMAIN Y[i] \ {k}
        t(j) == IF Alpha[i][j] = 1 THEN LZero ELSE LMul(Alpha[i][j] - 1, Log(Y[i][j]))
    IN  [j \in 1..Len(Y[i]) |-> IF j \in js THEN t(j) ELSE LZero]

\* C5 as stated, on valid inputs: a simplex row of Y with a zero entry y_k = 0
\* where alpha_k = 1 (alpha > 0) has a finite log_prob.
C5_Original ==
    op = "log_prob" =>
        \A i \in DOMAIN F :
            (/\ OnSimplex(Y[i])
             /\ RowPositive(Alpha[i])
             /\ \E k \in DOMAIN Y[i] : Y[i][k].n = 0 /\ Alpha[i][k] = 1)
            => LIsFin(ret[i])

\* C5 amended: where y_k = 0 and alpha_k = 1 the term (alpha_k - 1) log(y_k) counts
\* as exactly 0: the row's result is the sum of the remaining terms minus
\* log B(alpha), and it is finite when those are (alpha > 0, and every other entry
\* has y_j > 0 or alpha_j = 1).
C5_ZeroTimesLogZero ==
    op = "log_prob" =>
        \A i \in DOMAIN F : \A k \in DOMAIN Y[i] :
            (Y[i][k].n = 0 /\ Alpha[i][k] = 1) =>
                /\ ret[i] = LSub(reduce_sum_l(RestTerms(i, k), Len(Y[i])), lbeta(Alpha[i]))
                /\ (/\ RowPositive(Alpha[i])
                    /\ \A j \in DOMAIN Y[i] : Y[i][j].n > 0 \/ Alpha[i][j] = 1)
                   => LIsFin(ret[i])

C5_Witness ==
    /\ op = "log_prob"
    /\ invlink = "exp"
    /\ F = <<<<1, 2>>>>
    /\ Y = <<<<[n |-> 0, d |-> 3], [n |-> 3, d |-> 3]>>>>
    /\ ret = <<LFin(Ln2)>>

\* C6 as stated: log_prob returns NaN or +-Inf for a row whenever its Y is not a
\* simplex point (a negative entry, or entries not summing to 1) or its
\* concentration has a non-positive entry.
C6_Original ==
    op = "log_prob" =>
        \A i \in DOMAIN F :
            (~OnSimplex(Y[i]) \/ ~RowPositive(Alpha[i])) => ~LIsFin(ret[i])

\* C6 amended: log_prob returns one value per row and validates nothing; the value
\* is NaN or +-Inf exactly when the concentration has a zero or negative-integer
\* entry or some y_k <= 0 meets alpha_k # 1.  A row of positive entries that do not
\* sum to 1 gets a finite value.
C6_NonFiniteExactlyWhen ==
    op = "log_prob" =>
        /\ Len(ret) = Len(F)
        /\ \A i \in DOMAIN F :
            ~LIsFin(ret[i]) <=>
                \/ ~RowPositive(Alpha[i])
                \/ \E k \in DOMAIN Y[i] : Y[i][k].n <= 0 /\ Alpha[i][k] # 1

C6_Witness ==
    /\ op = "log_prob"
    /\ \E i \in DOMAIN F :
        /\ RowPositive(Alpha[i])
        /\ \A k \in DOMAIN Y[i] : Y[i][k].n > 0
        /\ RowNumSum(Y[i]) # Y[i][1].d
        /\ \E k \in DOMAIN Y[i] : Alpha[i][k] # 1
        /\ LIsFin(ret[i])

(* ================================================ claims under SpecCalls *)
\* C7: after construction with any link and any extra keyword arguments
\* num_monte_carlo_points is 100, and it is 100 after every sequence of log_prob,
\* conditional_mean, conditional_variance and _sample_dir calls.
C7_MonteCarloPointsIs100 == num_monte_carlo_points = 100

C7_Witness ==
    /\ op = "conditional_variance"
    /\ invlink = "expm1"
    /\ latent_dim = 2
    /\ kernel[1] > 0
    /\ kernel[2] > 0
    /\ num_monte_carlo_points = 100

\* C9: _sample_dir returns n samples of K entries; entry (i, k) is the Gamma variate
\* g[i][k] divided by the sum of sample i's own K variates, so every row is
\* non-negative and sums to 1.
C9_SamplesAreNormalizedGammas ==
    op = "_sample_dir" =>
        /\ Len(ret) = frame.n
        /\ Len(frame.gamma_sample) = frame.n
        /\ \A i \in DOMAIN ret :
            LET g == frame.gamma_sample[i]
                total == SumInt(g, Len(g))
            IN  /\ Len(g) = Len(frame.concentration)
                /\ Len(ret[i]) = Len(frame.concentration)
                /\ \A k \in DOMAIN ret[i] :
                    /\ g[k] > 0
                    /\ RIsFin(ret[i][k])
                    /\ ret[i][k].n >= 0
                    /\ ret[i][k].n * total = g[k] * ret[i][k].d
                /\ reduce_sum_r(ret[i], Len(ret[i])) = ROne

C9_Witness ==
    /\ op = "_sample_dir"
    /\ frame.n = 2
    /\ Len(frame.concentration) = 2
    /\ frame.gamma_sample[1] # frame.gamma_sample[2]
    /\ ret[1] # ret[2]
    /\ \E k \in 1..2 : ret[1][k] # RFin(1, 2)

\* the call that just returned has the arguments of the remembered one
SameCallAsNoted ==
    /\ op = "_sample_dir"
    /\ noted # NoCall
    /\ frame.seed = noted.seed
    /\ frame.concentration = noted.concentration
    /\ frame.n = noted.n

\* C10 as stated: two calls of _sample_dir with the same concentration, the same n
\* and the same non-None seed return identical samples, whatever sampling calls
\* happened before or between them.
C10_Original == SameCallAsNoted => ret = noted.ret

\* C10 amended: sampling with an explicit seed is reproducible from run to run,
\* not from call to call.  Two calls with the same concentration, n and seed that
\* are each the first use of that seed in their run return identical samples,
\* whatever unseeded or differently seeded calls happened before or between them.
C10_SeededFirstUseReproducible ==
    (SameCallAsNoted /\ frame.at = noted.at) => ret = noted.ret

C10_Witness ==
    /\ SameCallAsNoted
    /\ noted.run = "first"
    /\ run = "second"
    /\ frame.at = noted.at
    /\ kernel[1] > 0
    /\ kernel[2] > 0
    /\ Len(frame.concentration) = 2
    /\ ret = noted.ret
    /\ \E k \in 1..2 : ret[1][k] # RFin(1, 2)

(* ================================================= claims under SpecPure *)
\* C8: log_prob, conditional_mean and conditional_variance leave F, Y and the
\* configured link unchanged, and a call returns what the same call returned when
\* it was the first call on the object, whatever calls came between.
C8_PureCalls ==
    [][/\ F' = F
       /\ Y' = Y
       /\ invlink' = invlink
       /\ alone.op = op' => ret' = alone.ret]_vars

C8_Witness ==
    /\ alone.op = "log_prob"
    /\ op = "conditional_variance"
    /\ invlink = "exp"
    /\ F = <<<<1, 2>>>>
    /\ Y = <<<<[n |-> 1, d |-> 3], [n |-> 2, d |-> 3]>>>>
    /\ ENABLED (LogProb /\ FirstCall /\ ret' = alone.ret)

====
